---- MODULE Spec2Model ----
(***************************************************************************)
(* Model of psychopy/hardware/base.py: the response record, the response   *)
(* device's log and listener list, and the operations on them.             *)
(*                                                                         *)
(* Every method is one action.  A method body is translated statement by   *)
(* statement into an operator that maps the device (self), the arguments   *)
(* and the behaviour of the collaborators it calls to a Result: the        *)
(* device afterwards, how the call ended ("ok" or the exception that       *)
(* propagated), the value returned and the trace of the effects in the     *)
(* order the body performed them.  Each trace event carries the length of  *)
(* the log and of the listener list at the moment of the event, which is   *)
(* what a collaborator called at that moment would observe.                *)
(***************************************************************************)
EXTENDS Integers, Sequences, FiniteSets, TLC

\* ------------------------------------------------------------------ bounds

\* No call is taken that leaves the log longer than this.
MaxResponses == 2

\* No call is taken that leaves the listener list longer than this.
MaxListeners == 2

\* Raw messages the transport holds when dispatchMessages polls it.
MaxPending == 1

\* ------------------------------------------------------- python values

\* Timestamps and payloads the callers use for the fields t and value.
Times == {1}
Payloads == {2}

\* BaseResponse.fields
fields == <<"t", "value">>

\* BaseResponse.__init__(self, t, value); type(self) is cls, which is
\* BaseResponse or a class derived from it without overriding __init__.
NewResponse(cls, t, value) == [type |-> cls, t |-> t, value |-> value]

\* A value that is no response record (a raw string, say): it has no fields.
NonResponse(tp) == [type |-> tp, t |-> 0, value |-> 0]

\* The placeholder of a trace event that carries no message.
NoMsg == NonResponse("NoneType")

\* The base classes of a class, itself first (its method resolution order).
Mro(tp) ==
    CASE tp = "KeyResponse" -> <<"KeyResponse", "BaseResponse", "object">>
      [] tp = "BaseResponse" -> <<"BaseResponse", "object">>
      [] OTHER -> <<tp, "object">>

\* isinstance(obj, cls)
IsInstance(obj, cls) == \E i \in 1..Len(Mro(obj.type)) : Mro(obj.type)[i] = cls

\* BaseResponseDevice.responseClass
responseClass == "BaseResponse"

\* ------------------------------------------------------------ listeners

\* The listener classes of psychopy.hardware.listener; CustomListener stands
\* for a listener class of the caller's own, derived from BaseListener.
ListenerClasses ==
    {"BaseListener", "PrintListener", "LoggingListener", "LiaisonListener",
     "CustomListener"}

\* A python string, as a caller passes for a preset tag.
Str(s) == [type |-> "str", id |-> 0, val |-> s]

\* A listener object of class cls.  id tells objects of one class apart: 0
\* is the object the caller constructed itself, n > 0 the object that
\* addListener constructed for position n of the listener list.
ListenerObject(cls, id) == [type |-> cls, id |-> id, val |-> ""]

\* isinstance(listener, lsnr.BaseListener)
IsListener(listener) == listener.type \in ListenerClasses

\* How a call of listener.receiveMessage(message) on the element at position
\* i ends.  An element that is no listener has no such method; a listener's
\* own method may raise, and failAt is the position of the listener that
\* does so during this call of the device (0: none does).
ListenerReceives(listener, i, failAt) ==
    IF ~IsListener(listener) THEN "AttributeError"
    ELSE IF i = failAt THEN "ListenerError"
    ELSE "ok"

\* ---------------------------------------------------------------- device

\* BaseResponseDevice.__init__
NewDevice == [listeners |-> <<>>, responses |-> <<>>]

\* One effect of a method body, with what the device holds at that moment.
Event(ev, who, msg, self) ==
    [ev |-> ev, who |-> who, msg |-> msg,
     log |-> Len(self.responses), nl |-> Len(self.listeners)]

\* What a call did: the device afterwards, "ok" or the exception that
\* propagated, the value returned (<<>> when the call raised) and the trace.
Result(self, outcome, ret, trace) ==
    [self |-> self, outcome |-> outcome, ret |-> ret, trace |-> trace]

\* receiveMessage with its assert left out.
AcceptsAnything(message) == TRUE

\* receiveMessage asserting only that a message was given.
AcceptsNotNone(message) == message.type # "NoneType"

\* receiveMessage's guard: the assert on the type of the message.
AcceptsMessage(message) == IsInstance(message, responseClass)

\* self.responses.insert(0, message)
PrependResponse(self, message) ==
    [self EXCEPT !.responses = <<message>> \o self.responses]

\* self.responses.append(message)
AppendResponse(self, message) ==
    [self EXCEPT !.responses = Append(self.responses, message)]

\* The loop with each call wrapped in try/except: a raising element is
\* passed over and the loop goes on.
RECURSIVE RelayIsolating(_, _, _, _)
RelayIsolating(self, message, i, failAt) ==
    IF i > Len(self.listeners) THEN [outcome |-> "ok", trace |-> <<>>]
    ELSE LET listener == self.listeners[i]
             how == ListenerReceives(listener, i, failAt)
             entered == IF IsListener(listener)
                        THEN <<Event("receive", i, message, self)>>
                        ELSE <<>>
             raised == IF how = "ok" THEN <<>>
                       ELSE <<Event("raise", i, message, self)>>
             rest == RelayIsolating(self, message, i + 1, failAt)
         IN [outcome |-> rest.outcome,
             trace |-> entered \o raised \o rest.trace]

\* The loop leaving after its first call: only the first element of the
\* list is given the message.
RelayFirstOnly(self, message, i, failAt) ==
    IF i > Len(self.listeners) THEN [outcome |-> "ok", trace |-> <<>>]
    ELSE LET listener == self.listeners[i]
             how == ListenerReceives(listener, i, failAt)
             entered == IF IsListener(listener)
                        THEN <<Event("receive", i, message, self)>>
                        ELSE <<>>
         IN IF how = "ok"
            THEN [outcome |-> "ok", trace |-> entered]
            ELSE [outcome |-> how,
                  trace |-> entered \o <<Event("raise", i, message, self)>>]

\* The loop `for listener in self.listeners: listener.receiveMessage(message)`
\* from position i on.  Gives how the loop ended and the trace of the calls:
\* "receive" when a listener's method is entered, "raise" when the call of
\* the element at that position raised, which ends the loop.
RECURSIVE Relay(_, _, _, _)
Relay(self, message, i, failAt) ==
    IF i > Len(self.listeners) THEN [outcome |-> "ok", trace |-> <<>>]
    ELSE LET listener == self.listeners[i]
             how == ListenerReceives(listener, i, failAt)
             entered == IF IsListener(listener)
                        THEN <<Event("receive", i, message, self)>>
                        ELSE <<>>
         IN IF how = "ok"
            THEN LET rest == Relay(self, message, i + 1, failAt)
                 IN [outcome |-> rest.outcome, trace |-> entered \o rest.trace]
            ELSE [outcome |-> how,
                  trace |-> entered \o <<Event("raise", i, message, self)>>]

\* receiveMessage relaying to the listeners before it stores the message.
receiveMessageRelayFirst(self, message, failAt) ==
    IF ~AcceptsMessage(message)
    THEN Result(self, "AssertionError", <<>>, <<>>)
    ELSE LET relay == Relay(self, message, 1, failAt)
             stored == AppendResponse(self, message)
             trace == relay.trace \o <<Event("append", 0, message, stored)>>
         IN IF relay.outcome = "ok"
            THEN Result(stored, "ok", <<TRUE>>, trace)
            ELSE Result(self, relay.outcome, <<>>, relay.trace)

\* receiveMessage taking the message back out of the log when a listener
\* raises.
receiveMessageRollback(self, message, failAt) ==
    IF ~AcceptsMessage(message)
    THEN Result(self, "AssertionError", <<>>, <<>>)
    ELSE LET stored == AppendResponse(self, message)
             relay == Relay(stored, message, 1, failAt)
             trace == <<Event("append", 0, message, stored)>> \o relay.trace
         IN IF relay.outcome = "ok"
            THEN Result(stored, "ok", <<TRUE>>, trace)
            ELSE Result(self, relay.outcome, <<>>, trace)

\* BaseResponseDevice.receiveMessage(self, message)
receiveMessage(self, message, failAt) ==
    IF ~AcceptsMessage(message)
    THEN Result(self, "AssertionError", <<>>, <<>>)
    ELSE LET stored == AppendResponse(self, message)
             relay == Relay(stored, message, 1, failAt)
             trace == <<Event("append", 0, message, stored)>> \o relay.trace
         IN IF relay.outcome = "ok"
            THEN Result(stored, "ok", <<TRUE>>, trace)
            ELSE Result(stored, relay.outcome, <<>>, trace)

\* The constructor call with the two fields bound the wrong way round.
ConstructSwapped(cls, args, kwargs) ==
    LET given(i) == i <= Len(args) \/ fields[i] \in DOMAIN kwargs
        value(i) == IF i <= Len(args) THEN args[i] ELSE kwargs[fields[i]]
        bound == /\ Len(args) <= Len(fields)
                 /\ \A k \in DOMAIN kwargs :
                        \E i \in 1..Len(fields) : fields[i] = k /\ i > Len(args)
                 /\ \A i \in 1..Len(fields) : given(i)
    IN IF bound
       THEN [ok |-> TRUE, obj |-> NewResponse(cls, value(2), value(1))]
       ELSE [ok |-> FALSE, obj |-> NoMsg]

\* The call responseClass(*args, **kwargs), which binds the arguments to the
\* parameters (t, value) of BaseResponse.__init__ as python binds them:
\* positional arguments in order, then keywords by name; a surplus, unknown,
\* doubly given or missing argument is a TypeError.
Construct(cls, args, kwargs) ==
    LET given(i) == i <= Len(args) \/ fields[i] \in DOMAIN kwargs
        value(i) == IF i <= Len(args) THEN args[i] ELSE kwargs[fields[i]]
        bound == /\ Len(args) <= Len(fields)
                 /\ \A k \in DOMAIN kwargs :
                        \E i \in 1..Len(fields) : fields[i] = k /\ i > Len(args)
                 /\ \A i \in 1..Len(fields) : given(i)
    IN IF bound
       THEN [ok |-> TRUE, obj |-> NewResponse(cls, value(1), value(2))]
       ELSE [ok |-> FALSE, obj |-> NoMsg]

\* BaseResponseDevice.makeResponse(self, *args, **kwargs)
makeResponse(self, args, kwargs, failAt) ==
    LET resp == Construct(responseClass, args, kwargs)
    IN IF ~resp.ok
       THEN Result(self, "TypeError", <<>>, <<>>)
       ELSE LET received == receiveMessage(self, resp.obj, failAt)
                trace == <<Event("construct", 0, resp.obj, self)>>
                            \o received.trace
            IN IF received.outcome = "ok"
               THEN Result(received.self, "ok", <<resp.obj>>, trace)
               ELSE Result(received.self, received.outcome, <<>>, trace)

\* parseMessage of a device class that implements it: a well-formed raw
\* message gives a record of the device's response class, a garbled one
\* raises, and one the parser does not know comes back as it went in.
parseMessage(raw) ==
    CASE raw.kind = "good" ->
             [ok |-> TRUE, msg |-> NewResponse(responseClass, raw.t, raw.value)]
      [] raw.kind = "unparsed" -> [ok |-> TRUE, msg |-> NonResponse("str")]
      [] OTHER -> [ok |-> FALSE, msg |-> NoMsg]

\* dispatchMessages of a device class that polls: each pending raw message,
\* from the i-th on, goes through parseMessage and then receiveMessage; the
\* first failure of either propagates.  BaseResponseDevice.dispatchMessages
\* itself does nothing, which is the case of no pending message.
RECURSIVE Poll(_, _, _, _)
Poll(self, raws, i, failAt) ==
    IF i > Len(raws) THEN Result(self, "ok", <<>>, <<>>)
    ELSE LET parsed == parseMessage(raws[i])
         IN IF ~parsed.ok
            THEN Result(self, "ParseError", <<>>, <<>>)
            ELSE LET received == receiveMessage(self, parsed.msg, failAt)
                 IN IF received.outcome # "ok"
                    THEN received
                    ELSE LET rest == Poll(received.self, raws, i + 1, failAt)
                         IN Result(rest.self, rest.outcome, <<>>,
                                   received.trace \o rest.trace)

\* BaseResponseDevice.dispatchMessages(self), raws being what is pending.
dispatchMessages(self, raws, failAt) ==
    LET polled == Poll(self, raws, 1, failAt)
    IN Result(polled.self, polled.outcome, <<>>,
              <<Event("dispatch", 0, NoMsg, self)>> \o polled.trace)

\* del self.responses[0]: the oldest record is dropped, the rest kept.
EvictOldest(self) ==
    [self EXCEPT !.responses = IF Len(self.responses) <= 1 THEN <<>>
                               ELSE Tail(self.responses)]

\* self.responses = []
Truncate(self) == [self EXCEPT !.responses = <<>>]

\* clearResponses without the try/except around the drain.
clearResponsesPropagating(self, raws, failAt) ==
    LET drained == dispatchMessages(self, raws, failAt)
        cleared == Truncate(drained.self)
    IN IF drained.outcome # "ok"
       THEN Result(drained.self, drained.outcome, <<>>, drained.trace)
       ELSE Result(cleared, "ok", <<TRUE>>,
                   drained.trace \o <<Event("truncate", 0, NoMsg, cleared)>>)

\* clearResponses emptying the log before it drains.
clearResponsesTruncateFirst(self, raws, failAt) ==
    LET cleared == Truncate(self)
        drained == dispatchMessages(cleared, raws, failAt)
        swallowed == IF drained.outcome = "ok" THEN <<>>
                     ELSE <<Event("except", 0, NoMsg, drained.self)>>
    IN Result(drained.self, "ok", <<TRUE>>,
              <<Event("truncate", 0, NoMsg, cleared)>> \o drained.trace
                  \o swallowed)

\* BaseResponseDevice.clearResponses(self)
clearResponses(self, raws, failAt) ==
    LET drained == dispatchMessages(self, raws, failAt)
        swallowed == IF drained.outcome = "ok" THEN <<>>
                     ELSE <<Event("except", 0, NoMsg, drained.self)>>
        cleared == Truncate(drained.self)
    IN Result(cleared, "ok", <<TRUE>>,
              drained.trace \o swallowed
                  \o <<Event("truncate", 0, NoMsg, cleared)>>)

\* getListenerNames walking the list from its end.
getListenerNamesReversed(self) ==
    Result(self, "ok",
           <<[i \in 1..Len(self.listeners) |->
                 self.listeners[Len(self.listeners) + 1 - i].type]>>, <<>>)

\* BaseResponseDevice.getListenerNames(self)
getListenerNames(self) ==
    Result(self, "ok",
           <<[i \in 1..Len(self.listeners) |-> self.listeners[i].type]>>, <<>>)

\* The first part of addListener without the check that a server is
\* connected.
ResolveUnchecked(listener, liaison, fresh) ==
    IF IsListener(listener) THEN [ok |-> TRUE, listener |-> listener]
    ELSE LET a == IF listener = Str("liaison")
                  THEN ListenerObject("LiaisonListener", fresh) ELSE listener
             b == IF a = Str("print")
                  THEN ListenerObject("PrintListener", fresh) ELSE a
             c == IF b = Str("log")
                  THEN ListenerObject("LoggingListener", fresh) ELSE b
         IN [ok |-> TRUE, listener |-> c]

\* The first part of addListener: the listener to attach for what the caller
\* gave.  A listener object is taken as it is; otherwise the three `if`s run
\* one after the other, each comparing what the one before left.  liaison is
\* DeviceManager.liaison ("None" when no server is connected) and fresh the
\* identity of an object constructed here.
Resolve(listener, liaison, fresh) ==
    IF IsListener(listener) THEN [ok |-> TRUE, listener |-> listener]
    ELSE IF listener = Str("liaison") /\ liaison = "None"
    THEN [ok |-> FALSE, listener |-> listener]
    ELSE LET a == IF listener = Str("liaison")
                  THEN ListenerObject("LiaisonListener", fresh) ELSE listener
             b == IF a = Str("print")
                  THEN ListenerObject("PrintListener", fresh) ELSE a
             c == IF b = Str("log")
                  THEN ListenerObject("LoggingListener", fresh) ELSE b
         IN [ok |-> TRUE, listener |-> c]

\* self.listeners.insert(0, listener)
PrependListener(self, listener) ==
    [self EXCEPT !.listeners = <<listener>> \o self.listeners]

\* self.listeners.append(listener)
AppendListener(self, listener) ==
    [self EXCEPT !.listeners = Append(self.listeners, listener)]

\* How the call listener.startLoop(self) ends: an element that is no listener
\* has no such method, and a listener's loop may fail to start (loopFails).
ListenerStartsLoop(listener, loopFails) ==
    IF ~IsListener(listener) THEN "AttributeError"
    ELSE IF loopFails THEN "LoopError"
    ELSE "ok"

\* BaseResponseDevice.addListener(self, listener, startLoop=False).  The
\* trace has "startLoop" when the listener's startLoop is entered and "raise"
\* when the call of it raised.
addListener(self, listener, startLoop, liaison, loopFails) ==
    LET fresh == Len(self.listeners) + 1
        resolved == Resolve(listener, liaison, fresh)
    IN IF ~resolved.ok
       THEN Result(self, "AttributeError", <<>>, <<>>)
       ELSE LET made == IF resolved.listener # listener
                        THEN <<Event("construct", fresh, NoMsg, self)>>
                        ELSE <<>>
                attached == AppendListener(self, resolved.listener)
                trace == made \o <<Event("attach", fresh, NoMsg, attached)>>
                started == ListenerStartsLoop(resolved.listener, loopFails)
                entered == IF IsListener(resolved.listener)
                           THEN <<Event("startLoop", fresh, NoMsg, attached)>>
                           ELSE <<>>
            IN IF ~startLoop
               THEN Result(attached, "ok", <<resolved.listener>>, trace)
               ELSE IF started = "ok"
               THEN Result(attached, "ok", <<resolved.listener>>,
                           trace \o entered)
               ELSE Result(attached, started, <<>>,
                           trace \o entered
                               \o <<Event("raise", fresh, NoMsg, attached)>>)

\* How the call listener.loop.removeDevice(listener) on the element at
\* position i ends: an element that is no listener has no loop, and failAt
\* is the position of the listener whose loop fails to remove it (0: none).
LoopRemoves(listener, i, failAt) ==
    IF ~IsListener(listener) THEN "AttributeError"
    ELSE IF i = failAt THEN "LoopError"
    ELSE "ok"

\* The loop `for listener in self.listeners: listener.loop.removeDevice(..)`
\* from position i on.
RECURSIVE Remove(_, _, _)
Remove(self, i, failAt) ==
    IF i > Len(self.listeners) THEN [outcome |-> "ok", trace |-> <<>>]
    ELSE LET how == LoopRemoves(self.listeners[i], i, failAt)
         IN IF how = "ok"
            THEN LET rest == Remove(self, i + 1, failAt)
                 IN [outcome |-> rest.outcome,
                     trace |-> <<Event("removeDevice", i, NoMsg, self)>>
                                   \o rest.trace]
            ELSE [outcome |-> how,
                  trace |-> <<Event("raise", i, NoMsg, self)>>]

\* clearListeners emptying the list before it walks it.
clearListenersEmptyFirst(self, failAt) ==
    LET cleared == [self EXCEPT !.listeners = <<>>]
        removed == Remove(cleared, 1, failAt)
    IN IF removed.outcome = "ok"
       THEN Result(cleared, "ok", <<TRUE>>,
                   <<Event("detach", 0, NoMsg, cleared)>> \o removed.trace)
       ELSE Result(cleared, removed.outcome, <<>>, removed.trace)

\* clearListeners with the loop in try/finally: the list is emptied also
\* when a loop fails.
clearListenersFinally(self, failAt) ==
    LET removed == Remove(self, 1, failAt)
        cleared == [self EXCEPT !.listeners = <<>>]
    IN IF removed.outcome = "ok"
       THEN Result(cleared, "ok", <<TRUE>>,
                   removed.trace \o <<Event("detach", 0, NoMsg, cleared)>>)
       ELSE Result(cleared, removed.outcome, <<>>, removed.trace)

\* BaseResponseDevice.clearListeners(self)
clearListeners(self, failAt) ==
    LET removed == Remove(self, 1, failAt)
        cleared == [self EXCEPT !.listeners = <<>>]
    IN IF removed.outcome = "ok"
       THEN Result(cleared, "ok", <<TRUE>>,
                   removed.trace \o <<Event("detach", 0, NoMsg, cleared)>>)
       ELSE Result(self, removed.outcome, <<>>, removed.trace)

\* -------------------------------------------------------------- envelope

\* A Python value held by a field of a record: its type, its repr, and for a
\* list or a tuple its items.
Py(type, val) == [type |-> type, val |-> val, items |-> <<>>]

PySequence(type, items) == [type |-> type, val |-> "", items |-> items]

\* float("nan"), in an object or in one of its items
HasNaN(v) ==
    \/ v = Py("float", "nan")
    \/ \E i \in 1..Len(v.items) : v.items[i] = Py("float", "nan")

\* a == b of two Python values; nan equals nothing, itself included.
PyEquals(a, b) == a = b /\ ~HasNaN(a)

\* What json.dumps writes: a literal of one of JSON's kinds with its text,
\* an array of items, or an object of members in the order written.
Json(kind, text) ==
    [kind |-> kind, text |-> text, items |-> <<>>, members |-> <<>>]

JsonArray(items) ==
    [kind |-> "array", text |-> "", items |-> items, members |-> <<>>]

JsonObject(members) ==
    [kind |-> "object", text |-> "", items |-> <<>>, members |-> members]

Member(key, value) == [key |-> key, value |-> value]

\* The types json.dumps has an encoding for.
RECURSIVE Serializable(_)
Serializable(v) ==
    \/ v.type \in {"NoneType", "bool", "int", "float", "str"}
    \/ /\ v.type \in {"list", "tuple"}
       /\ \A i \in 1..Len(v.items) : Serializable(v.items[i])

\* An encoder writing str(o) as a string for every value.
EncodeAsStr(v) == Json("string", v.val)

\* json.dumps(o) of a value: None is null, True and False are true and
\* false, an int is its digits, a float its repr (NaN for nan), a str a
\* string, a list and a tuple alike an array.
RECURSIVE Encode(_)
Encode(v) ==
    CASE v.type = "NoneType" -> Json("null", "null")
      [] v.type = "bool" ->
            IF v.val = "True" THEN Json("true", "true")
            ELSE Json("false", "false")
      [] v.type = "int" -> Json("integer", v.val)
      [] v.type = "float" ->
            IF v.val = "nan" THEN Json("NaN", "NaN") ELSE Json("real", v.val)
      [] v.type = "str" -> Json("string", v.val)
      [] v.type \in {"list", "tuple"} ->
            JsonArray([i \in 1..Len(v.items) |-> Encode(v.items[i])])

\* json.loads of what Encode wrote: an array is a list, a number without
\* fraction an int, with a fraction a float.
RECURSIVE Decode(_)
Decode(j) ==
    CASE j.kind = "null" -> Py("NoneType", "None")
      [] j.kind = "true" -> Py("bool", "True")
      [] j.kind = "false" -> Py("bool", "False")
      [] j.kind = "integer" -> Py("int", j.text)
      [] j.kind = "real" -> Py("float", j.text)
      [] j.kind = "NaN" -> Py("float", "nan")
      [] j.kind = "string" -> Py("str", j.text)
      [] j.kind = "array" ->
            PySequence("list", [i \in 1..Len(j.items) |-> Decode(j.items[i])])

\* The class attribute `fields` of the record classes: of BaseResponse, and
\* of a class derived from it that declares one more field.
FieldsOf(cls) ==
    IF cls = "ButtonResponse" THEN <<"t", "value", "channel">> ELSE fields

NoJson == Json("none", "")

\* BaseResponse.getJSON(self): the text returned, or the TypeError json.dumps
\* raises for a value it has no encoding for.
getJSON(self) ==
    LET keys == FieldsOf(self.type)
        data == [i \in 1..Len(keys) |-> Member(keys[i], self.attrs[keys[i]])]
        message ==
            <<Member("type", Json("string", "hardware_response")),
              Member("class", Json("string", self.type)),
              Member("data",
                     JsonObject([i \in 1..Len(data) |->
                                    Member(data[i].key, Encode(data[i].value))]))>>
    IN IF \A i \in 1..Len(data) : Serializable(data[i].value)
       THEN [outcome |-> "ok", json |-> JsonObject(message)]
       ELSE [outcome |-> "TypeError", json |-> NoJson]

\* The values the fields of a record are given.
FieldValues ==
    {Py("NoneType", "None"), Py("bool", "True"), Py("int", "1"),
     Py("float", "1.5"), Py("float", "nan"), Py("str", "a"),
     Py("bytes", "b'a'"),
     PySequence("list", <<Py("int", "1"), Py("str", "a")>>),
     PySequence("tuple", <<Py("int", "1"), Py("int", "2")>>)}

\* BaseResponse(t, value) and ButtonResponse(t, value, channel)
Records ==
    {[type |-> "BaseResponse", attrs |-> [t |-> t, value |-> v]] :
        t \in FieldValues, v \in FieldValues}
       \cup {[type |-> "ButtonResponse",
              attrs |-> [t |-> t, value |-> v, channel |-> c]] :
                t \in FieldValues, v \in FieldValues, c \in FieldValues}

NoRecord == [type |-> "NoneType", attrs |-> <<>>]

NotCalled == [outcome |-> "none", json |-> NoJson]

\* -------------------------------------------------------------- registry

\* The DeviceManager as __init_subclass__ uses it: the list deviceClasses and
\* the calls of registerClassAlias made so far, in order.
NewRegistry == [deviceClasses |-> <<>>, aliasCalls |-> <<>>]

\* DeviceManager.registerClassAlias(alias, mro)
registerClassAlias(registry, alias, mro) ==
    [registry EXCEPT !.aliasCalls = Append(@, <<alias, mro>>)]

\* The class string of the class alone, without its module.
ClassStringOfName(cls) == cls.name

\* inspect.getmodule(cls).__name__ + "." + cls.__name__
ClassString(cls) == cls.module \o "." \o cls.name

\* The keyword `aliases` of a class statement: left out (None), or a list.
NoAliases == [given |-> FALSE, list |-> <<>>]

AliasList(list) == [given |-> TRUE, list |-> list]

\* The loop `for alias in aliases: DeviceManager.registerClassAlias(..)`
\* from position i on.
RECURSIVE RegisterAliases(_, _, _, _)
RegisterAliases(registry, aliases, mro, i) ==
    IF i > Len(aliases) THEN registry
    ELSE RegisterAliases(registerClassAlias(registry, aliases[i], mro),
                         aliases, mro, i + 1)

\* BaseDevice.__init_subclass__(cls, aliases=None)
__init_subclass__(registry, cls, aliases) ==
    LET list == IF ~aliases.given THEN <<>> ELSE aliases.list
        mro == ClassString(cls)
        bound == RegisterAliases(registry, list, mro, 1)
    IN [bound EXCEPT !.deviceClasses = Append(@, mro)]

\* The class statement of this module that runs the hook when the module is
\* imported: class BaseResponseDevice(BaseDevice).
BaseResponseDevice ==
    [module |-> "psychopy.hardware.base", name |-> "BaseResponseDevice",
     aliases |-> NoAliases]

\* The registry once this module is imported.
ImportedRegistry ==
    __init_subclass__(NewRegistry, BaseResponseDevice,
                      BaseResponseDevice.aliases)

\* The device classes declared by other modules, and the aliases they give.
MaxDeclarations == 2

DeviceModules == {"psychopy.hardware.keyboard"}

DeviceClassNames == {"KeyboardDevice", "ButtonBox"}

AliasArgs ==
    {NoAliases, AliasList(<<>>), AliasList(<<"keyboard">>),
     AliasList(<<"keyboard", "kb">>), AliasList(<<"kb", "keyboard">>)}

\* What the instances are given while classes are being declared.
OperatedListeners == {ListenerObject("CustomListener", 0)}

\* ---------------------------------------------------------------- inputs

SeqsUpTo(S, n) == UNION {[1..k -> S] : k \in 0..n}

\* What callers pass to receiveMessage: records of the response class and of
\* a class derived from it, and values that are no records.
Messages ==
    {NewResponse("BaseResponse", 1, 2), NewResponse("KeyResponse", 2, 2),
     NonResponse("str"), NonResponse("dict")}

\* The arguments callers pass to makeResponse: up to three positional values
\* and any keywords among t and value.
PositionalArgs ==
    {<<>>} \cup {<<t>> : t \in Times}
           \cup {<<t, v>> : t \in Times, v \in Payloads}
           \cup {<<t, v, v>> : t \in Times, v \in Payloads}

KeywordArgs ==
    {<<>>} \cup {[t |-> t] : t \in Times} \cup {[value |-> v] : v \in Payloads}
           \cup {[t |-> t, value |-> v] : t \in Times, v \in Payloads}

\* What the transport can hold for dispatchMessages.
RawMessages ==
    {[kind |-> "good", t |-> 1, value |-> 2],
     [kind |-> "garbled", t |-> 0, value |-> 0],
     [kind |-> "unparsed", t |-> 0, value |-> 0]}

\* What callers pass to addListener: a listener of their own, the three
\* preset tags, and a string that is no preset tag.
ListenerSpecs ==
    {ListenerObject("CustomListener", 0), Str("liaison"), Str("print"),
     Str("log"), Str("keyboard")}

\* DeviceManager.liaison when addListener reads it, which it does for the
\* tag "liaison" alone: no server connected, or one.
LiaisonStates(listener) ==
    IF listener = Str("liaison") THEN {"None", "server"} ELSE {"None"}

\* ----------------------------------------------------------------- state

VARIABLES
    responses,  \* self.responses
    listeners,  \* self.listeners
    last,       \* the last call: method, arguments, device before, Result
    calls,      \* the valid records passed to receiveMessage by the caller,
                \* while no other method has touched the log (pure)
    deviceClasses,  \* DeviceManager.deviceClasses
    aliasCalls,     \* the calls of DeviceManager.registerClassAlias
    declared,       \* the class statements run so far
    response,       \* the record whose getJSON is called
    envelope,       \* what response.getJSON() gave
    inbox,          \* per attached listener, the records its receiveMessage
                    \* was called with since it was attached
    due,            \* per attached listener, the records the device has
                    \* appended to its log since the listener was attached
    quiet           \* no call of the fan-out has raised so far

\* The state outside the device instance.
registry == <<deviceClasses, aliasCalls, declared>>

wire == <<response, envelope>>

delivery == <<inbox, due, quiet>>

vars == <<responses, listeners, last, calls, registry, wire, delivery>>

Self == [listeners |-> listeners, responses |-> responses]

\* No call is on record: the device was just constructed, or the caller has
\* taken the result of its last call.
Idle == [op |-> "none"]

Call(op, args, r) ==
    /\ last = Idle
    /\ Len(r.self.responses) <= MaxResponses
    /\ Len(r.self.listeners) <= MaxListeners
    /\ responses' = r.self.responses
    /\ listeners' = r.self.listeners
    /\ last' = [op |-> op, args |-> args, pre |-> Self, outcome |-> r.outcome,
                ret |-> r.ret, trace |-> r.trace]
    /\ UNCHANGED <<registry, wire, delivery>>

\* The device, the registry and the call record when this module has been
\* imported and a device constructed.
Imported ==
    /\ responses = NewDevice.responses
    /\ listeners = NewDevice.listeners
    /\ last = Idle
    /\ calls = [pure |-> TRUE, msgs |-> <<>>]
    /\ deviceClasses = ImportedRegistry.deviceClasses
    /\ aliasCalls = ImportedRegistry.aliasCalls
    /\ declared = <<BaseResponseDevice>>
    /\ inbox = <<>>
    /\ due = <<>>
    /\ quiet = TRUE

Init ==
    /\ Imported
    /\ response = NoRecord
    /\ envelope = NotCalled

Impure == [pure |-> FALSE, msgs |-> <<>>]

ReceiveMessage ==
    /\ \E message \in Messages, failAt \in 0..Len(listeners) :
          /\ Call("receiveMessage", [message |-> message, failAt |-> failAt],
                  receiveMessage(Self, message, failAt))
          /\ calls' = IF calls.pure /\ IsInstance(message, responseClass)
                      THEN [calls EXCEPT !.msgs = Append(@, message)]
                      ELSE calls

MakeResponse ==
    /\ \E args \in PositionalArgs, kwargs \in KeywordArgs,
          failAt \in 0..Len(listeners) :
          Call("makeResponse",
               [args |-> args, kwargs |-> kwargs, failAt |-> failAt],
               makeResponse(Self, args, kwargs, failAt))
    /\ calls' = Impure

ClearResponses ==
    \E raws \in SeqsUpTo(RawMessages, MaxPending),
       failAt \in 0..Len(listeners) :
       /\ Call("clearResponses", [raws |-> raws, failAt |-> failAt],
               clearResponses(Self, raws, failAt))
       /\ calls' = Impure

GetListenerNames ==
    /\ Call("getListenerNames", <<>>, getListenerNames(Self))
    /\ UNCHANGED calls

AddListener ==
    /\ \E listener \in ListenerSpecs, startLoop \in BOOLEAN :
       \E liaison \in LiaisonStates(listener),
          loopFails \in (IF startLoop THEN BOOLEAN ELSE {FALSE}) :
          Call("addListener",
               [listener |-> listener, startLoop |-> startLoop,
                liaison |-> liaison, loopFails |-> loopFails],
               addListener(Self, listener, startLoop, liaison, loopFails))
    /\ UNCHANGED calls

ClearListeners ==
    /\ \E failAt \in 0..Len(listeners) :
          Call("clearListeners", [failAt |-> failAt],
               clearListeners(Self, failAt))
    /\ UNCHANGED calls

\* The caller takes the result of the call and goes on; the device is as the
\* call left it.
Return ==
    /\ last # Idle
    /\ last' = Idle
    /\ UNCHANGED <<responses, listeners, calls, registry, wire, delivery>>

Next ==
    \/ ReceiveMessage
    \/ MakeResponse
    \/ ClearResponses
    \/ GetListenerNames
    \/ AddListener
    \/ ClearListeners
    \/ Return

Spec == Init /\ [][Next]_vars

\* A class statement `class Name(BaseResponseDevice, aliases=...)` in
\* another module runs the hook.
DeclareSubclass ==
    /\ Len(declared) <= MaxDeclarations
    /\ \E module \in DeviceModules, name \in DeviceClassNames,
          aliases \in AliasArgs :
          LET cls == [module |-> module, name |-> name, aliases |-> aliases]
              after == __init_subclass__(
                           [deviceClasses |-> deviceClasses,
                            aliasCalls |-> aliasCalls], cls, aliases)
          IN /\ deviceClasses' = after.deviceClasses
             /\ aliasCalls' = after.aliasCalls
             /\ declared' = Append(declared, cls)
    /\ UNCHANGED <<responses, listeners, last, calls, wire, delivery>>

\* What a call of a method of the instance, or the construction of a new
\* instance, leaves of the device.
Operated ==
    {NewDevice}
       \cup {receiveMessage(Self, m, 0).self : m \in Messages}
       \cup {makeResponse(Self, a, <<>>, 0).self : a \in PositionalArgs}
       \cup {clearResponses(Self, raws, 0).self :
                raws \in SeqsUpTo(RawMessages, MaxPending)}
       \cup {getListenerNames(Self).self}
       \cup {addListener(Self, l, s, "None", FALSE).self :
                l \in OperatedListeners, s \in BOOLEAN}
       \cup {clearListeners(Self, 0).self}

\* An instance is constructed or one of its methods is called, and the
\* caller takes the result.
Operate ==
    /\ \E self \in Operated :
          /\ Len(self.responses) <= MaxResponses
          /\ Len(self.listeners) <= MaxListeners
          /\ responses' = self.responses
          /\ listeners' = self.listeners
    /\ UNCHANGED <<last, calls, registry, wire, delivery>>

NextRegistry ==
    \/ DeclareSubclass
    \/ Operate

SpecRegistry == Init /\ [][NextRegistry]_vars

\* A record of each class with each choice of field values.
InitEnvelope ==
    /\ Imported
    /\ response \in Records
    /\ envelope = NotCalled

\* response.getJSON()
GetJSON ==
    /\ envelope = NotCalled
    /\ envelope' = getJSON(response)
    /\ UNCHANGED <<responses, listeners, last, calls, registry, response,
                   delivery>>

SpecEnvelope == InitEnvelope /\ [][GetJSON]_vars

\* The listeners a device has attached, and what callers attach while the
\* deliveries are followed.
Attached(ls) == {ls[i] : i \in 1..Len(ls)}

MaxDeliveries == 2

DeliveryListeners == {ListenerObject("CustomListener", 0), Str("print")}

\* The records with which the receiveMessage of listener L was called during
\* a call with this trace, ls being the list the call walked.
Delivered(trace, ls, L) ==
    LET got == SelectSeq(trace,
                         LAMBDA e : e.ev = "receive" /\ ls[e.who] = L)
    IN [i \in 1..Len(got) |-> got[i].msg]

\* The records appended to the log during a call with this trace.
Ingested(trace) ==
    LET put == SelectSeq(trace, LAMBDA e : e.ev = "append")
    IN [i \in 1..Len(put) |-> put[i].msg]

\* A call that ingests is made and returns, and each attached listener's
\* histories take what the call appended and what it delivered.  Nothing
\* follows a call in which the fan-out raised.
Ingest(r) ==
    /\ quiet
    /\ Len(r.self.responses) <= MaxResponses
    /\ \A L \in Attached(listeners) :
          Len(due[L]) + Len(Ingested(r.trace)) <= MaxDeliveries
    /\ responses' = r.self.responses
    /\ listeners' = r.self.listeners
    /\ inbox' = [L \in Attached(listeners) |->
                    inbox[L] \o Delivered(r.trace, listeners, L)]
    /\ due' = [L \in Attached(listeners) |-> due[L] \o Ingested(r.trace)]
    /\ quiet' = (SelectSeq(r.trace, LAMBDA e : e.ev = "raise") = <<>>)
    /\ UNCHANGED <<last, calls, registry, wire>>

IngestByReceive ==
    \E message \in Messages, failAt \in 0..Len(listeners) :
       Ingest(receiveMessage(Self, message, failAt))

IngestByMake ==
    \E args \in PositionalArgs, failAt \in 0..Len(listeners) :
       Ingest(makeResponse(Self, args, <<>>, failAt))

IngestByDrain ==
    \E raws \in SeqsUpTo(RawMessages, MaxPending),
       failAt \in 0..Len(listeners) :
       Ingest(clearResponses(Self, raws, failAt))

\* addListener is called and returns: the listener attached starts with
\* empty histories, unless it is attached already.
Attach ==
    /\ quiet
    /\ \E listener \in DeliveryListeners, startLoop \in BOOLEAN :
          LET r == addListener(Self, listener, startLoop, "None", FALSE)
          IN /\ Len(r.self.listeners) <= MaxListeners
             /\ responses' = r.self.responses
             /\ listeners' = r.self.listeners
             /\ inbox' = [L \in Attached(r.self.listeners) |->
                             IF L \in Attached(listeners) THEN inbox[L]
                             ELSE <<>>]
             /\ due' = [L \in Attached(r.self.listeners) |->
                           IF L \in Attached(listeners) THEN due[L] ELSE <<>>]
    /\ UNCHANGED <<last, calls, registry, wire, quiet>>

\* clearListeners is called and returns: no listener is attached any more.
Detach ==
    /\ quiet
    /\ LET r == clearListeners(Self, 0)
       IN /\ responses' = r.self.responses
          /\ listeners' = r.self.listeners
          /\ inbox' = [L \in Attached(r.self.listeners) |-> inbox[L]]
          /\ due' = [L \in Attached(r.self.listeners) |-> due[L]]
    /\ UNCHANGED <<last, calls, registry, wire, quiet>>

NextDelivery ==
    \/ IngestByReceive
    \/ IngestByMake
    \/ IngestByDrain
    \/ Attach
    \/ Detach

SpecDelivery == Init /\ [][NextDelivery]_vars

\* ---------------------------------------------------------------- claims

\* The classes whose instances are records of the device's response class.
RecordClasses == {"BaseResponse", "KeyResponse"}

\* Every element of the list is a listener.
AllListeners(ls) == \A i \in 1..Len(ls) : ls[i].type \in ListenerClasses

\* The events of one kind, in trace order.
Events(trace, ev) == SelectSeq(trace, LAMBDA e : e.ev = ev)

\* The positions (who) of a sequence of events.
Positions(events) == [i \in 1..Len(events) |-> events[i].who]

\* C1: receiveMessage with a record that is no instance of the response class
\* fails with the assertion's error, leaves responses (and listeners) as they
\* were and calls no listener, whatever the log and the listeners were.
C1_WrongTypeHasNoEffect ==
    (last.op = "receiveMessage" /\ last.args.message.type \notin RecordClasses)
       => /\ last.outcome = "AssertionError"
          /\ last.ret = <<>>
          /\ responses = last.pre.responses
          /\ listeners = last.pre.listeners
          /\ last.trace = <<>>

C1_Witness ==
    /\ last.op = "receiveMessage"
    /\ last.args.message.type \notin RecordClasses
    /\ last.outcome = "AssertionError"
    /\ Len(last.pre.responses) > 0
    /\ Len(last.pre.listeners) > 1

\* C2: in every reachable state every element of responses is an instance of
\* the device's response class.
C2_ResponsesAreRecords ==
    \A i \in 1..Len(responses) : responses[i].type \in RecordClasses

C2_Witness ==
    /\ Len(responses) = MaxResponses
    /\ \E i, j \in 1..Len(responses) : responses[i].type # responses[j].type
    /\ last.op = "receiveMessage"
    /\ last.outcome = "AssertionError"

\* C3: from a new device, with nothing else touching the log, after n calls
\* of receiveMessage with valid records r1..rn responses is <<r1, .., rn>>,
\* whatever listeners are attached (and whether or not one of them raised).
C3_LogIsCallOrder == calls.pure => responses = calls.msgs

C3_Witness ==
    /\ calls.pure
    /\ Len(calls.msgs) = 2
    /\ calls.msgs[1] # calls.msgs[2]
    /\ Len(listeners) > 0

\* C4: receiveMessage with a valid record and listeners that do not raise
\* appends the record first and then calls receiveMessage(record) on every
\* attached listener once, in attachment order, each call seeing the record
\* in the log already; it returns True after the last of them.
C4_AppendThenRelayInOrder ==
    (/\ last.op = "receiveMessage"
     /\ last.args.message.type \in RecordClasses
     /\ last.args.failAt = 0
     /\ AllListeners(last.pre.listeners))
       => LET n == Len(last.pre.listeners)
              m == Len(last.pre.responses)
              msg == last.args.message
          IN /\ last.outcome = "ok"
             /\ last.ret = <<TRUE>>
             /\ responses = Append(last.pre.responses, msg)
             /\ last.trace =
                   [i \in 1..(n + 1) |->
                       [ev |-> IF i = 1 THEN "append" ELSE "receive",
                        who |-> i - 1, msg |-> msg, log |-> m + 1, nl |-> n]]

C4_Witness ==
    /\ last.op = "receiveMessage"
    /\ last.outcome = "ok"
    /\ Len(last.pre.listeners) = 2
    /\ last.pre.listeners[1] # last.pre.listeners[2]
    /\ Len(last.pre.responses) > 0
    /\ Len(Events(last.trace, "receive")) = 2

\* C5: clearResponses ends with responses empty and returns True, whatever
\* the log was and whether the drain completed (with or without ingesting
\* records) or raised; it never raises what the drain raised.
C5_ClearAlwaysEmpties ==
    last.op = "clearResponses"
       => /\ responses = <<>>
          /\ last.outcome = "ok"
          /\ last.ret = <<TRUE>>

C5_Witness ==
    /\ last.op = "clearResponses"
    /\ Len(last.pre.responses) > 0
    /\ Len(Events(last.trace, "except")) = 1
    /\ Len(Events(last.trace, "raise")) = 1
    /\ responses = <<>>

\* C6: addListener("liaison") with no liaison server connected raises, leaves
\* listeners as they were, constructs no listener and does not call startLoop,
\* also when startLoop is True.
C6_LiaisonNeedsServer ==
    (/\ last.op = "addListener"
     /\ last.args.listener = Str("liaison")
     /\ last.args.liaison = "None")
       => /\ last.outcome = "AttributeError"
          /\ last.ret = <<>>
          /\ listeners = last.pre.listeners
          /\ last.trace = <<>>

C6_Witness ==
    /\ last.op = "addListener"
    /\ last.args.listener = Str("liaison")
    /\ last.args.liaison = "None"
    /\ last.args.startLoop
    /\ last.outcome = "AttributeError"
    /\ Len(listeners) > 0

\* The first position of the list whose call raises during a fan-out in
\* which the listener at failAt raises (0: no position does).
FirstRaising(ls, failAt) ==
    LET raising == {i \in 1..Len(ls) :
                       i = failAt \/ ls[i].type \notin ListenerClasses}
    IN IF raising = {} THEN 0
       ELSE CHOOSE k \in raising : \A j \in raising : k <= j

\* C7: when the k-th attached listener raises during the fan-out of a valid
\* record, receiveMessage raises the same and returns nothing; the listeners
\* before k have received the record, each once and in order, and no
\* listener after k is called.
C7_RaisePropagates ==
    (/\ last.op = "receiveMessage"
     /\ last.args.message.type \in RecordClasses
     /\ FirstRaising(last.pre.listeners, last.args.failAt) > 0)
       => LET k == FirstRaising(last.pre.listeners, last.args.failAt)
              entered == IF last.pre.listeners[k].type \in ListenerClasses
                         THEN k ELSE k - 1
              raised == Events(last.trace, "raise")
          IN /\ last.outcome =
                   (IF entered = k THEN "ListenerError" ELSE "AttributeError")
             /\ last.ret = <<>>
             /\ Positions(Events(last.trace, "receive")) =
                   [i \in 1..entered |-> i]
             /\ \A i \in 1..Len(last.trace) :
                   last.trace[i].msg = last.args.message
             /\ Positions(raised) = <<k>>
             /\ last.trace[Len(last.trace)] = raised[1]

C7_Witness ==
    /\ last.op = "receiveMessage"
    /\ last.outcome = "ListenerError"
    /\ last.args.failAt = 1
    /\ Len(last.pre.listeners) = 2
    /\ AllListeners(last.pre.listeners)
    /\ Positions(Events(last.trace, "receive")) = <<1>>

\* The field values a call of makeResponse gives, when it gives each of t
\* and value once, by position or by keyword (<<>> when it does not).
GivenFields(args, kwargs) ==
    IF Len(args) = 2 /\ DOMAIN kwargs = {} THEN <<args[1], args[2]>>
    ELSE IF Len(args) = 1 /\ DOMAIN kwargs = {"value"}
    THEN <<args[1], kwargs.value>>
    ELSE IF Len(args) = 0 /\ DOMAIN kwargs = {"t", "value"}
    THEN <<kwargs.t, kwargs.value>>
    ELSE <<>>

\* C8: makeResponse(field values) does what constructing a record of the
\* response class from those values and calling receiveMessage on it once
\* does: the record is appended as the last element of responses and relayed
\* to the attached listeners in attachment order, to every one of them once
\* when none raises and up to the first that raises otherwise; when none
\* raises, makeResponse returns that record.
C8_MakeResponseIsReceive ==
    (/\ last.op = "makeResponse"
     /\ GivenFields(last.args.args, last.args.kwargs) # <<>>)
       => LET given == GivenFields(last.args.args, last.args.kwargs)
              record == [type |-> "BaseResponse", t |-> given[1],
                         value |-> given[2]]
              received == Events(last.trace, "receive")
              n == Len(last.pre.listeners)
              k == FirstRaising(last.pre.listeners, last.args.failAt)
              entered == IF k = 0 THEN n
                         ELSE IF last.pre.listeners[k].type \in ListenerClasses
                         THEN k ELSE k - 1
          IN /\ responses = Append(last.pre.responses, record)
             /\ listeners = last.pre.listeners
             /\ Len(Events(last.trace, "append")) = 1
             /\ Positions(received) = [i \in 1..entered |-> i]
             /\ \A i \in 1..Len(received) :
                   received[i].msg = record /\ received[i].log = Len(responses)
             /\ (last.outcome = "ok") = (k = 0)
             /\ last.ret = (IF k = 0 THEN <<record>> ELSE <<>>)

C8_Witness ==
    /\ last.op = "makeResponse"
    /\ last.outcome = "ok"
    /\ Len(last.args.args) = 1
    /\ DOMAIN last.args.kwargs = {"value"}
    /\ Len(last.pre.responses) > 0
    /\ Len(Events(last.trace, "receive")) = 2

\* The number of leading well-formed raw messages.
RECURSIVE GoodPrefix(_)
GoodPrefix(raws) ==
    IF raws = <<>> \/ raws[1].kind # "good" THEN 0
    ELSE 1 + GoodPrefix(Tail(raws))

\* C9: a clearResponses call calls dispatchMessages once, before it empties
\* the log; a record the drain ingests is relayed to the attached listeners
\* (all of them when none raises) and is not in responses afterwards.
C9_DrainThenTruncate ==
    last.op = "clearResponses"
       => LET trace == last.trace
              n == Len(last.pre.listeners)
              ingested == Events(trace, "append")
              received == Events(trace, "receive")
          IN /\ Len(Events(trace, "dispatch")) = 1
             /\ trace[1].ev = "dispatch"
             /\ Len(Events(trace, "truncate")) = 1
             /\ trace[Len(trace)].ev = "truncate"
             /\ responses = <<>>
             /\ (last.args.failAt = 0 /\ AllListeners(last.pre.listeners))
                   => /\ Len(ingested) = GoodPrefix(last.args.raws)
                      /\ Len(received) = n * Len(ingested)
                      /\ \A i \in 1..Len(received) :
                            /\ received[i].who = ((i - 1) % n) + 1
                            /\ received[i].msg =
                                  ingested[((i - 1) \div n) + 1].msg
                            /\ received[i].log > Len(last.pre.responses)

C9_Witness ==
    /\ last.op = "clearResponses"
    /\ Len(last.pre.responses) > 0
    /\ Len(Events(last.trace, "append")) = 1
    /\ Len(Events(last.trace, "receive")) = 2
    /\ Len(Events(last.trace, "except")) = 0
    /\ responses = <<>>

\* C10: a successful addListener call appends one element to listeners,
\* leaving those before it in place, and returns that element: the object
\* given when a listener was given, a newly constructed listener of the
\* tag's class when a preset tag was given.
C10_AddListenerAppendsAndReturns ==
    (last.op = "addListener" /\ last.outcome = "ok")
       => LET given == last.args.listener
              added == listeners[Len(listeners)]
              class == CASE given = Str("liaison") -> "LiaisonListener"
                         [] given = Str("print") -> "PrintListener"
                         [] given = Str("log") -> "LoggingListener"
                         [] OTHER -> given.type
          IN /\ listeners = Append(last.pre.listeners, added)
             /\ last.ret = <<added>>
             /\ given.type \in ListenerClasses => added = given
             /\ added.type = class
             /\ class # given.type
                   => \A i \in 1..Len(last.pre.listeners) :
                         last.pre.listeners[i] # added

C10_Witness ==
    /\ last.op = "addListener"
    /\ last.outcome = "ok"
    /\ last.args.listener = Str("print")
    /\ Len(last.pre.listeners) = 1
    /\ last.pre.listeners[1].type = "PrintListener"
    /\ last.ret # <<last.pre.listeners[1]>>


\* C11: after any sequence of addListener calls, whatever was passed, every
\* element of listeners is a listener: the object given, or one constructed
\* for a preset tag; anything else is not stored.
C11_ListenersAreListeners ==
    \A i \in 1..Len(listeners) : listeners[i].type \in ListenerClasses


\* C12: clearListeners, when no removal fails, asks the loop of every attached
\* listener to remove it, once each and in attachment order, while the list
\* is still whole, and empties listeners after that; it returns True, and a
\* receiveMessage on the emptied list calls no listener.
C12_RemoveAllThenEmpty ==
    /\ (/\ last.op = "clearListeners"
        /\ last.args.failAt = 0
        /\ AllListeners(last.pre.listeners))
          => LET n == Len(last.pre.listeners)
                 m == Len(last.pre.responses)
             IN /\ last.outcome = "ok"
                /\ last.ret = <<TRUE>>
                /\ listeners = <<>>
                /\ last.trace =
                      [i \in 1..(n + 1) |->
                          IF i <= n
                          THEN [ev |-> "removeDevice", who |-> i, msg |-> NoMsg,
                                log |-> m, nl |-> n]
                          ELSE [ev |-> "detach", who |-> 0, msg |-> NoMsg,
                                log |-> m, nl |-> 0]]
    /\ (last.op \in {"receiveMessage", "makeResponse", "clearResponses"}
        /\ last.pre.listeners = <<>>)
          => Events(last.trace, "receive") = <<>>

C12_Witness ==
    /\ last.op = "clearListeners"
    /\ last.outcome = "ok"
    /\ Len(last.pre.listeners) = 2
    /\ last.pre.listeners[1] # last.pre.listeners[2]
    /\ Positions(Events(last.trace, "removeDevice")) = <<1, 2>>
    /\ listeners = <<>>


\* s with one element added at its end is t.
GrewByOne(s, t) == Len(t) = Len(s) + 1 /\ SubSeq(t, 1, Len(s)) = s

\* C13: every step changes responses only by appending one record at its end
\* (receiveMessage, makeResponse) or by emptying it (clearResponses), and
\* listeners only by appending one element (addListener) or by emptying it
\* (clearListeners); addListener, clearListeners and getListenerNames leave
\* responses as it was, and receiveMessage, makeResponse, clearResponses and
\* getListenerNames leave listeners as it was.
C13_FrameOfEachMethod ==
    [][/\ \/ responses' = responses
          \/ /\ GrewByOne(responses, responses')
             /\ last'.op \in {"receiveMessage", "makeResponse"}
          \/ /\ responses' = <<>>
             /\ last'.op = "clearResponses"
       /\ \/ listeners' = listeners
          \/ /\ GrewByOne(listeners, listeners')
             /\ last'.op = "addListener"
          \/ /\ listeners' = <<>>
             /\ last'.op = "clearListeners"
       /\ last'.op \in {"addListener", "clearListeners", "getListenerNames"}
             => responses' = responses
       /\ last'.op \in {"receiveMessage", "makeResponse", "clearResponses",
                        "getListenerNames"}
             => listeners' = listeners]_vars

C13_Witness ==
    /\ last.op = "clearResponses"
    /\ Len(last.pre.responses) = 2
    /\ Len(Events(last.trace, "append")) = 1
    /\ responses = <<>>
    /\ Len(listeners) = 2
    /\ listeners = last.pre.listeners


\* C14: getListenerNames returns a sequence as long as listeners whose i-th
\* entry is the class name of the i-th element: the empty sequence on a new
\* device and after clearListeners, <<"PrintListener">> after a single
\* addListener("print"); the call changes neither listeners nor responses.
C14_NamesFollowListeners ==
    last.op = "getListenerNames"
       => /\ last.outcome = "ok"
          /\ Len(last.ret) = 1
          /\ Len(last.ret[1]) = Len(listeners)
          /\ \A i \in 1..Len(listeners) : last.ret[1][i] = listeners[i].type
          /\ listeners = <<>> => last.ret = << <<>> >>
          /\ listeners = <<ListenerObject("PrintListener", 1)>>
                => last.ret = << <<"PrintListener">> >>
          /\ listeners = last.pre.listeners
          /\ responses = last.pre.responses

C14_Witness ==
    /\ last.op = "getListenerNames"
    /\ Len(listeners) = 2
    /\ last.ret = << <<"PrintListener", "CustomListener">> >>
    /\ Len(responses) = 2


\* C15: an addListener call that attaches an element calls startLoop(device)
\* on it once if startLoop is set, after the element was appended, and not
\* at all if startLoop is unset.
C15_StartLoopIffRequested ==
    (last.op = "addListener" /\ listeners # last.pre.listeners)
       => LET started == Events(last.trace, "startLoop")
          IN IF last.args.startLoop
             THEN /\ Len(started) = 1
                  /\ started[1].who = Len(listeners)
                  /\ started[1].nl = Len(last.pre.listeners) + 1
             ELSE started = <<>>

\* C15 for the calls that attach a listener: the object given, or the one
\* constructed for a preset tag.
C15_StartLoopOfListeners ==
    (/\ last.op = "addListener"
     /\ listeners # last.pre.listeners
     /\ listeners[Len(listeners)].type \in ListenerClasses)
       => LET started == Events(last.trace, "startLoop")
          IN IF last.args.startLoop
             THEN /\ Len(started) = 1
                  /\ started[1].who = Len(listeners)
                  /\ started[1].nl = Len(last.pre.listeners) + 1
             ELSE started = <<>>


\* C19: when a listener raises during the fan-out of a valid record, the
\* record stays in the log: after the failed receiveMessage call responses is
\* the log before plus the record as last element and listeners is as before,
\* and the listeners after the raising one have not received the record that
\* is in the log.
C19_NoRollback ==
    (/\ last.op = "receiveMessage"
     /\ last.args.message.type \in RecordClasses
     /\ FirstRaising(last.pre.listeners, last.args.failAt) > 0)
       => LET k == FirstRaising(last.pre.listeners, last.args.failAt)
              received == Positions(Events(last.trace, "receive"))
          IN /\ last.outcome # "ok"
             /\ responses = Append(last.pre.responses, last.args.message)
             /\ listeners = last.pre.listeners
             /\ last.trace[1].ev = "append"
             /\ last.trace[1].log = Len(last.pre.responses) + 1
             /\ \A j \in (k + 1)..Len(listeners) :
                   \A i \in 1..Len(received) : received[i] # j

C19_Witness ==
    /\ last.op = "receiveMessage"
    /\ last.outcome = "ListenerError"
    /\ last.args.failAt = 1
    /\ Len(listeners) = 2
    /\ AllListeners(listeners)
    /\ Len(last.pre.responses) = 1
    /\ Len(responses) = 2
    /\ responses[2] = last.args.message
    /\ Events(last.trace, "receive") # <<>>
    /\ \A i \in 1..Len(last.trace) :
          last.trace[i].ev = "receive" => last.trace[i].who # 2


\* C20: when removeDevice fails for the k-th attached listener during
\* clearListeners (or the element has no loop), the failure propagates and
\* listeners is as before the call: the loops of listeners 1..k-1 have
\* removed them, they are still attached, and a record ingested next is
\* still relayed to each of them.
C20_FailedClearKeepsListeners ==
    (/\ last.op = "clearListeners"
     /\ FirstRaising(last.pre.listeners, last.args.failAt) > 0)
       => LET k == FirstRaising(last.pre.listeners, last.args.failAt)
              before == [i \in 1..(k - 1) |-> i]
          IN /\ last.outcome # "ok"
             /\ last.ret = <<>>
             /\ listeners = last.pre.listeners
             /\ responses = last.pre.responses
             /\ Positions(Events(last.trace, "removeDevice")) = before
             /\ Positions(Events(last.trace, "raise")) = <<k>>
             /\ Events(last.trace, "detach") = <<>>
             /\ \A m \in Messages :
                   m.type \in RecordClasses
                      => LET next == receiveMessage(Self, m, 0)
                             got == Events(next.trace, "receive")
                         IN /\ SubSeq(Positions(got), 1, k - 1) = before
                            /\ \A i \in 1..Len(got) : got[i].msg = m

C20_Witness ==
    /\ last.op = "clearListeners"
    /\ last.args.failAt = 2
    /\ last.outcome = "LoopError"
    /\ Len(listeners) = 2
    /\ AllListeners(listeners)
    /\ Positions(Events(last.trace, "removeDevice")) = <<1>>


\* The calls of registerClassAlias that the class statements decl[i..] make.
RECURSIVE AliasBindings(_, _)
AliasBindings(decl, i) ==
    IF i > Len(decl) THEN <<>>
    ELSE LET id == decl[i].module \o "." \o decl[i].name
             list == decl[i].aliases.list
         IN [j \in 1..Len(list) |-> <<list[j], id>>] \o AliasBindings(decl, i + 1)

\* C16: the known-class list holds, in declaration order, one entry per
\* class statement run, the module name + "." + class name of the class; the
\* alias bindings made are those of the class statements, each alias bound to
\* the identifier of its class, in the order given, and none for a class
\* declared without aliases.  No construction of an instance and no call of
\* its methods takes part in either.
C16_RegistryFollowsDeclarations ==
    /\ deviceClasses =
          [i \in 1..Len(declared) |->
              declared[i].module \o "." \o declared[i].name]
    /\ aliasCalls = AliasBindings(declared, 1)

C16_Witness ==
    /\ Len(declared) = 3
    /\ declared[2].aliases = AliasList(<<"kb", "keyboard">>)
    /\ declared[3].aliases = NoAliases
    /\ deviceClasses = <<"psychopy.hardware.base.BaseResponseDevice",
                         "psychopy.hardware.keyboard.ButtonBox",
                         "psychopy.hardware.keyboard.KeyboardDevice">>
    /\ aliasCalls = << <<"kb", "psychopy.hardware.keyboard.ButtonBox">>,
                       <<"keyboard", "psychopy.hardware.keyboard.ButtonBox">> >>
    /\ Len(responses) = 2
    /\ Len(listeners) = 1


\* The envelope read back: the members of the text, and its data decoded.
Envelope(j) ==
    [keys |-> [i \in 1..Len(j.members) |-> j.members[i].key],
     type |-> Decode(j.members[1].value),
     class |-> Decode(j.members[2].value),
     fields |-> LET data == j.members[3].value.members
                IN [i \in 1..Len(data) |-> data[i].key],
     data |-> LET data == j.members[3].value.members
              IN [i \in 1..Len(data) |-> Decode(data[i].value)]]

\* getJSON gave an envelope of the record: type "hardware_response", class
\* the name of the record's class, data with the declared fields as keys, in
\* their order, and each value read back equal to the field's value.
IsEnvelopeOf(self, given) ==
    /\ given.outcome = "ok"
    /\ given.json.kind = "object"
    /\ LET read == Envelope(given.json)
           keys == FieldsOf(self.type)
       IN /\ read.keys = <<"type", "class", "data">>
          /\ read.type = Py("str", "hardware_response")
          /\ read.class = Py("str", self.type)
          /\ given.json.members[3].value.kind = "object"
          /\ read.fields = keys
          /\ \A i \in 1..Len(keys) :
                PyEquals(read.data[i], self.attrs[keys[i]])

JsonNative(v) ==
    /\ ~HasNaN(v)
    /\ \/ v.type \in {"NoneType", "bool", "int", "float", "str"}
       \/ /\ v.type = "list"
          /\ \A i \in 1..Len(v.items) :
                v.items[i].type \in {"NoneType", "bool", "int", "float", "str"}

C18_DeliveredIsIngested ==
    quiet =>
       \A L \in Attached(listeners) :
          Cardinality({i \in 1..Len(listeners) : listeners[i] = L}) = 1
             => inbox[L] = due[L]

C18_Witness ==
    /\ quiet
    /\ listeners = <<ListenerObject("CustomListener", 0),
                     ListenerObject("PrintListener", 2)>>
    /\ inbox[listeners[1]] = <<NewResponse("KeyResponse", 2, 2),
                               NewResponse("BaseResponse", 1, 2)>>
    /\ inbox[listeners[2]] = <<NewResponse("BaseResponse", 1, 2)>>
    /\ responses = <<>>

====
